---------------------------- MODULE Spec2Model ----------------------------
(***************************************************************************)
(* A model of one pychain node: the HTTP handlers of                       *)
(* apps/node/api/v1/endpoints.py and the job of                            *)
(* apps/node/daemons/network_sync.py over the Redis-backed cache of        *)
(* package/pychain/node/storage/cache.py; and of a cluster of such nodes   *)
(* that sync with one another.                                             *)
(*                                                                         *)
(* Scheduling.  The handlers are coroutines (async def) of one event loop: *)
(* the code between two awaits runs without interleaving, and another      *)
(* handler may run at every await.  Each action below is one such          *)
(* await-free stretch of a handler.                                        *)
(***************************************************************************)
EXTENDS Integers, Sequences, FiniteSets, Bags, TLC

(***************************************************************************)
(* Bounds of the model.                                                    *)
(***************************************************************************)
\* GUIDs range over 0..MaxGuid: a fresh allocation beyond MaxGuid is not taken.
MaxGuid == 1
\* Sender / node addresses are the IPv4 literals a1..aMaxAddr, written 1..MaxAddr.
MaxAddr == 2
\* Number of requests of one endpoint that may be in flight at once.
MaxReq == 2
\* Message ids range over 1..MaxMsgId.
MaxMsgId == 2
\* The nodes of the sync daemon's specifications have the GUIDs 0..MaxPeer.
MaxPeer == 3
\* The cluster has the nodes 0..MaxNode.
MaxNode == 2
\* The ring computations are called with GUIDs 0..MaxRing.
MaxRing == 9
\* The store of a node is written with the GUIDs 0..MaxStore.
MaxStore == 2
\* Peer.get_peers is called in networks whose highest GUID is at most MaxKnown.
MaxKnown == 6

\* Python's None: an absent Redis key, an absent JSON key, an unset field.
None == -1

GUIDs == 0..MaxGuid
Addresses == 1..MaxAddr
MsgIds == 1..MaxMsgId

VARIABLES
    is_boot_node,     \* settings.is_boot_node (fixed by the environment)
    network_guid,     \* cache.network_guid: None or the highest GUID known
    guid_map,         \* cache.guid_map: insertion-ordered dict GUID -> address
    join,             \* the /network/join handlers suspended at their await (a bag)
    join_reply,       \* history: the last join request that completed
    solo,             \* history: one join handler is in flight, and no other was since it began
    issued,           \* history: the freshly allocated GUIDs, in order
    guid,             \* cache.guid: this node's identity, None before it joined
    message_id_count, \* cache.message_id_count
    bcast,            \* the /broadcast handlers suspended at an await (a bag)
    forwards,         \* history: the messages this node decided to forward, in order
    bcast_reply,      \* history: the answer the last step gave to a /broadcast
                      \* request (kept by SpecRequest only)
    bcast_from,       \* history: the node that sent the request the last step
                      \* decided, None for a client (kept by SpecRequest only)
    guid_file,        \* the file storage_dir/guid: None as long as it is absent
    tick,             \* the job of the network_sync daemon: where it stands
    sync,             \* the /sync handler of the API, as the daemon sees it
    knows,            \* a cluster of nodes: cache.network_guid of each
    jobs,             \* a cluster of nodes: the daemon's job of each
    ring,             \* a call of the ring computations of class GUID: its
                      \* arguments and, once it has returned, its result
    upsert,           \* history: the last operation on the store of a node
                      \* that is not a boot node (kept by SpecStore and
                      \* SpecPeers only)
    setitem           \* RedisDict.__setitem__ on cache.guid_map in the API
                      \* process, between its GET and its SET

join_vars == <<is_boot_node, network_guid, guid_map, join, join_reply, solo, issued>>
bcast_history == <<bcast_reply, bcast_from>>
bcast_vars == <<guid, message_id_count, bcast, forwards, bcast_reply, bcast_from>>
\* what the handlers of /network/join, /peers and /broadcast leave alone
not_api == <<guid_file, tick, sync, knows, jobs, ring, upsert, setitem>>
\* what the daemon and the /sync handler beside it leave alone
not_daemon == <<is_boot_node, join, join_reply, solo, issued,
                message_id_count, bcast, forwards, bcast_reply, bcast_from,
                knows, jobs, ring, upsert, setitem>>
\* the node that the other specifications are about
node_vars == <<is_boot_node, network_guid, guid_map, join, join_reply, solo, issued,
               guid, message_id_count, bcast, forwards, bcast_reply, bcast_from,
               guid_file, tick, sync, ring, upsert, setitem>>
vars == <<is_boot_node, network_guid, guid_map, join, join_reply, solo, issued,
          guid, message_id_count, bcast, forwards, bcast_reply, bcast_from,
          guid_file, tick, sync, knows, jobs, ring, upsert, setitem>>

Max(a, b) == IF a >= b THEN a ELSE b

Range(s) == {s[i] : i \in DOMAIN s}

\* the daemon between two runs of its job
IdleTick == [pc |-> "idle"]

\* no /sync request is being handled, and none was
NoSync == [pc |-> "none"]

\* Nodes 0..MaxNode have joined, in this order, and no job has run yet.
InitCluster ==
    /\ knows = [n \in 0..MaxNode |-> n]
    /\ jobs = [n \in 0..MaxNode |-> IdleTick]

\* no ring computation is under way
NoRing == [pc |-> "none"]

\* no operation on the store was made
NoUpsert == [op |-> "none"]

\* no assignment to an item of cache.guid_map is under way
NoSetItem == [pc |-> "none"]

\* a process whose identity is on file, its daemon idle
InitDaemon ==
    /\ guid_file = guid
    /\ tick = IdleTick
    /\ sync = NoSync
    /\ ring = NoRing
    /\ upsert = NoUpsert
    /\ setitem = NoSetItem
    /\ InitCluster

(***************************************************************************)
(* RedisDict: a pickled Python dict, which keeps its keys in insertion     *)
(* order.  It is a sequence of entries [guid, address] with distinct       *)
(* guids.                                                                  *)
(***************************************************************************)
Keys(m) == {m[i].guid : i \in DOMAIN m}

Contains(m, g) == g \in Keys(m)

\* dict.get(g): the address bound to g, None when g is absent
Get(m, g) ==
    IF Contains(m, g)
    THEN m[CHOOSE i \in DOMAIN m : m[i].guid = g].address
    ELSE None

\* the GUIDs that m binds to address a
BoundTo(m, a) == {g \in Keys(m) : Get(m, g) = a}

\* d[g] = a: an existing key keeps its place, a new key goes last
SetItem(m, g, a) ==
    IF Contains(m, g)
    THEN [i \in DOMAIN m |->
            IF m[i].guid = g THEN [guid |-> g, address |-> a] ELSE m[i]]
    ELSE Append(m, [guid |-> g, address |-> a])

\* {addr: guid for guid, addr in guid_map.items()}: of the GUIDs bound to one
\* address the one that comes last in iteration order wins; None: no such key
AddressMap(m) ==
    [a \in Addresses |->
        LET at == {i \in DOMAIN m : m[i].address = a}
        IN  IF at = {} THEN None
            ELSE m[CHOOSE i \in at : \A j \in at : j <= i].guid]

(***************************************************************************)
(* /network/join                                                           *)
(***************************************************************************)
\* retval = {}
EmptyResponse == [address |-> None, guid |-> None]

\* The last join request that completed: its sender and body, the response,
\* the address its GUID was bound to before (was), whether no other join
\* request overlapped it (alone), and whether it came right after a request
\* of the same sender, both without a GUID and neither overlapped (second).
NoJoin == [sender |-> None, data |-> None, retval |-> EmptyResponse, was |-> None,
           alone |-> FALSE, second |-> FALSE]

\* (mutation) every request is served as if by a boot node
ServesJoinAlways == TRUE

\* if settings.is_boot_node
ServesJoin == is_boot_node

\* the GUID of the next first-time joiner
NextNetworkGuid(ng) == IF ng = None THEN 0 ELSE ng + 1

\* (mutation) a GUID counts as allocated when it is no greater than the highest
IsAllocatedInRange(m, ng, g) == ng # None /\ g <= ng

\* "guid" in data, and guid in cache.guid_map
IsAllocated(m, ng, g) == Contains(m, g)

\* (mutation) a sender that has joined already is not recognised
IsFirstJoinAlways(known) == TRUE

\* sender_address not in address_map, where known is address_map.get(sender)
IsFirstJoin(known) == known = None

\* (mutation) the GUID of the request body is not looked at
JoinBranchIgnoresGuid(m, ng, known, data) ==
    IF known = None THEN "fresh" ELSE "known"

\* the branch the handler takes once the request body is read
JoinBranch(m, ng, known, data) ==
    IF data # None
    THEN IF IsAllocated(m, ng, data) THEN "rejoin" ELSE "refuse"
    ELSE IF IsFirstJoin(known) THEN "fresh" ELSE "known"

\* the GUID the handler answers with, None when it refuses
JoinGuid(branch, ng, known, data) ==
    CASE branch = "rejoin" -> data
      [] branch = "fresh" -> NextNetworkGuid(ng)
      [] branch = "known" -> known
      [] OTHER -> None

\* The handler up to its first await (await request.json()).  On a boot node it
\* has taken its snapshot of the address map by then; on any other node there
\* is no await, and the handler returns {} at once.  The body d is read at the
\* await: a boot node has not looked at it yet.  Of its snapshot the handler
\* only ever reads the sender's entry (sender_address not in address_map,
\* address_map[sender_address]), so that entry is what the suspended handler
\* holds: known = address_map.get(sender_address).
JoinBegin(a, d) ==
    /\ BagCardinality(join) < MaxReq
    /\ IF ServesJoin
       THEN /\ join' = join (+) SetToBag({[sender |-> a,
                                          known |-> AddressMap(guid_map)[a]]})
            /\ solo' = (join = EmptyBag)
            /\ UNCHANGED join_reply
       ELSE /\ join_reply' = [sender |-> a, data |-> d, retval |-> EmptyResponse,
                              was |-> None, alone |-> join = EmptyBag,
                              second |-> FALSE]
            /\ UNCHANGED <<join, solo>>
    /\ UNCHANGED <<is_boot_node, network_guid, guid_map, issued>>
    /\ UNCHANGED bcast_vars

\* the request h, finishing with body d, comes right after the request of
\* join_reply: same sender, both without a GUID, neither overlapped
IsSecond(h, d) ==
    /\ solo /\ join_reply.alone
    /\ d = None /\ join_reply.data = None
    /\ h.sender = join_reply.sender

\* The rest of the handler on a boot node, from the body d that the await
\* delivers to the return.
JoinFinish(h, d) ==
    /\ BagIn(h, join)
    /\ LET a == h.sender
           branch == JoinBranch(guid_map, network_guid, h.known, d)
           g == JoinGuid(branch, network_guid, h.known, d)
           retval == IF branch = "refuse" THEN EmptyResponse
                     ELSE [address |-> a, guid |-> g]
       IN  /\ branch = "fresh" => g <= MaxGuid
           /\ network_guid' = IF branch = "fresh" THEN g ELSE network_guid
           /\ guid_map' = IF branch \in {"rejoin", "fresh"}
                          THEN SetItem(guid_map, g, a) ELSE guid_map
           /\ issued' = IF branch = "fresh" THEN Append(issued, g) ELSE issued
           /\ join_reply' = [sender |-> a, data |-> d, retval |-> retval,
                             was |-> Get(guid_map, g), alone |-> solo,
                             second |-> IsSecond(h, d)]
    /\ join' = join (-) SetToBag({h})
    /\ solo' = FALSE
    /\ UNCHANGED is_boot_node
    /\ UNCHANGED bcast_vars

(***************************************************************************)
(* /sync and /peers/{guid}                                                 *)
(***************************************************************************)
\* (mutation) the sender's GUID replaces the receiver's, even when it is lower
SyncOverwrite(s, ng) == s

\* the receiver's network GUID after a /sync request carrying GUID s
SyncNetworkGuid(s, ng) == IF ng = None THEN s ELSE Max(s, ng)

\* The handler from its await of the body to its return of network_guid.
Sync(s) ==
    /\ network_guid' = SyncNetworkGuid(s, network_guid)
    /\ UNCHANGED <<is_boot_node, guid_map, join, join_reply, solo, issued>>
    /\ UNCHANGED bcast_vars

\* cache.guid_map.get(guid): the handler answers and writes nothing
PeersLookup(g) ==
    /\ Get(guid_map, g) \in Addresses \cup {None}
    /\ UNCHANGED join_vars
    /\ UNCHANGED bcast_vars

(***************************************************************************)
(* The ring of GUIDs (models.py, class GUID).  A list of GUIDs is a        *)
(* sequence; Python counts from 0, the sequences from 1.                   *)
(***************************************************************************)
\* a Python slice bound k of a list of length n: negative bounds count from
\* the end, and bounds beyond the list are clipped
Clip(k, n) ==
    IF k >= 0 THEN (IF k > n THEN n ELSE k)
    ELSE (IF n + k < 0 THEN 0 ELSE n + k)

\* s[k:]
SliceFrom(s, k) == SubSeq(s, Clip(k, Len(s)) + 1, Len(s))

\* s[:k]
SliceTo(s, k) == SubSeq(s, 1, Clip(k, Len(s)))

\* list.index(x), counted from 1; 0 when x is not in the list (ValueError)
Index(s, x) ==
    IF \E i \in DOMAIN s : s[i] = x
    THEN CHOOSE i \in DOMAIN s : s[i] = x /\ \A j \in 1..(i - 1) : s[j] # x
    ELSE 0

\* GUID._get_network: guid_max .. 0, rotated by guid_max - self
GetNetwork(self, guid_max) ==
    LET seq == [i \in 1..(guid_max + 1) |-> guid_max + 1 - i]
        offset == guid_max - self
    IN  SliceFrom(seq, offset) \o SliceTo(seq, offset)

RECURSIVE PrimaryFrom(_, _, _)
\* the loop of get_primary_peers from distance on
PrimaryFrom(network, distance, guid_max) ==
    IF distance <= guid_max
    THEN <<network[distance + 1]>> \o PrimaryFrom(network, 2 * distance, guid_max)
    ELSE <<>>

\* (mutation) the loop begins at distance 2
GetPrimaryPeersFromTwo(self, guid_max) ==
    PrimaryFrom(GetNetwork(self, guid_max), 2, guid_max)

\* GUID.get_primary_peers
GetPrimaryPeers(self, guid_max) ==
    PrimaryFrom(GetNetwork(self, guid_max), 1, guid_max)

\* (mutation) the slice runs up to and including stop_guid
GetBackupPeersWithStop(self, start_guid, stop_guid, guid_max) ==
    LET network == GetNetwork(self, guid_max)
        start_idx == Index(network, start_guid)
        stop_idx == Index(network, stop_guid)
    IN  IF start_idx = 0 \/ stop_idx = 0
        THEN [ok |-> FALSE, guids |-> <<>>]
        ELSE IF stop_idx > start_idx
        THEN [ok |-> TRUE, guids |-> SubSeq(network, start_idx + 1, stop_idx)]
        ELSE [ok |-> TRUE, guids |-> SubSeq(network, start_idx + 1, Len(network))]

\* (mutation) a stop_guid that is not in the network counts as coming first
GetBackupPeersAnyStop(self, start_guid, stop_guid, guid_max) ==
    LET network == GetNetwork(self, guid_max)
        start_idx == Index(network, start_guid)
        stop_idx == Index(network, stop_guid)
    IN  IF start_idx = 0
        THEN [ok |-> FALSE, guids |-> <<>>]
        ELSE IF stop_idx > start_idx
        THEN [ok |-> TRUE, guids |-> SubSeq(network, start_idx + 1, stop_idx - 1)]
        ELSE [ok |-> TRUE, guids |-> SubSeq(network, start_idx + 1, Len(network))]

\* GUID.get_backup_peers: raises GUIDNotInNetwork (ok = FALSE) when start_guid
\* or stop_guid is not in the network
GetBackupPeers(self, start_guid, stop_guid, guid_max) ==
    LET network == GetNetwork(self, guid_max)
        start_idx == Index(network, start_guid)
        stop_idx == Index(network, stop_guid)
    IN  IF start_idx = 0 \/ stop_idx = 0
        THEN [ok |-> FALSE, guids |-> <<>>]
        ELSE IF stop_idx > start_idx
        THEN [ok |-> TRUE, guids |-> SubSeq(network, start_idx + 1, stop_idx - 1)]
        ELSE [ok |-> TRUE, guids |-> SubSeq(network, start_idx + 1, Len(network))]

(***************************************************************************)
(* Peer.get_peers.  The environment of one call: alive, the GUIDs of the   *)
(* peers that answer GET /status, and known, the GUIDs the boot node       *)
(* resolves to an address.  The node with GUID g runs at AddressOf(g).     *)
(***************************************************************************)
AddressOf(g) == g + 1

RECURSIVE ScanBackups(_, _, _, _, _)
\* for backup_guid in backup_guids, from the j-th on: the first backup with a
\* known address that is alive becomes a peer (break); a backup without an
\* address is put on unaddressed_backup_peers
ScanBackups(backup_guids, j, m, alive, st) ==
    IF j > Len(backup_guids) THEN st
    ELSE LET b == backup_guids[j]
         IN  IF Get(m, b) # None
             THEN IF b \in alive
                  THEN [st EXCEPT !.peers = Append(@, b)]
                  ELSE ScanBackups(backup_guids, j + 1, m, alive, st)
             ELSE ScanBackups(backup_guids, j + 1, m, alive,
                              [st EXCEPT !.backups = Append(@, b)])

RECURSIVE FirstLoop(_, _, _, _, _, _, _)
\* while peer_guids, from the i-th primary peer on; ok = FALSE when
\* get_backup_peers raises
FirstLoop(self, peer_guids, i, m, guid_max, alive, st) ==
    IF i > Len(peer_guids) \/ ~st.ok THEN st
    ELSE LET g == peer_guids[i]
             next_guid == IF i < Len(peer_guids) THEN peer_guids[i + 1] ELSE self
             backup_guids == GetBackupPeers(self, g, next_guid, guid_max)
         IN  IF Get(m, g) # None
             THEN IF g \notin alive
                  THEN IF ~backup_guids.ok
                       THEN [st EXCEPT !.ok = FALSE]
                       ELSE FirstLoop(self, peer_guids, i + 1, m, guid_max, alive,
                                      ScanBackups(backup_guids.guids, 1, m, alive, st))
                  ELSE FirstLoop(self, peer_guids, i + 1, m, guid_max, alive,
                                 [st EXCEPT !.peers = Append(@, g)])
             ELSE FirstLoop(self, peer_guids, i + 1, m, guid_max, alive,
                            [st EXCEPT !.unaddressed = Append(@, g)])

RECURSIVE LookupLoop(_, _, _, _, _)
\* while unaddressed_peers / while unaddressed_backup_peers: the list is popped
\* only as long as len(peers) < total_peer_guids, so the loop never ends
\* (hang) when the list is not empty and peers is full
LookupLoop(todo, total_peer_guids, alive, known, r) ==
    IF todo = <<>> THEN r
    ELSE IF Len(r.peers) < total_peer_guids
    THEN LET g == Head(todo)
         IN  IF g \in known
             THEN LookupLoop(Tail(todo), total_peer_guids, alive, known,
                             [r EXCEPT !.guid_map = SetItem(@, g, AddressOf(g)),
                                       !.peers = IF g \in alive
                                                 THEN Append(@, g) ELSE @])
             ELSE LookupLoop(Tail(todo), total_peer_guids, alive, known, r)
    ELSE [r EXCEPT !.hang = TRUE]

\* Peer.get_peers(guid_map, guid_max, boot_node) of the peer with GUID self:
\* the peers found, the guid_map as the call leaves it, and the outcome: "ok",
\* "raise" (int(None) of a guid_max that is None, GUIDNotInNetwork) or "hang"
GetPeers(self, m, guid_max, alive, known) ==
    IF guid_max = None
    THEN [outcome |-> "raise", peers |-> <<>>, guid_map |-> m]
    ELSE
    LET peer_guids == GetPrimaryPeers(self, guid_max)
        total_peer_guids == Len(peer_guids)
        st == FirstLoop(self, peer_guids, 1, m, guid_max, alive,
                        [peers |-> <<>>, unaddressed |-> <<>>,
                         backups |-> <<>>, ok |-> TRUE])
        r2 == LookupLoop(st.unaddressed, total_peer_guids, alive, known,
                         [peers |-> st.peers, guid_map |-> m, hang |-> FALSE])
        r3 == IF r2.hang THEN r2
              ELSE LookupLoop(st.backups, total_peer_guids, alive, known, r2)
    IN  IF ~st.ok
        THEN [outcome |-> "raise", peers |-> <<>>, guid_map |-> m]
        ELSE [outcome |-> IF r3.hang THEN "hang" ELSE "ok",
              peers |-> r3.peers, guid_map |-> r3.guid_map]

(***************************************************************************)
(* /broadcast                                                              *)
(***************************************************************************)
\* time.time() at the origin: any value that is not None
Now == 0

\* The messages a request carries: what a client hands to a node for it to
\* originate (id and broadcast_timestamp null), and what Peer.broadcast sends
\* on (Message.as_dict() once the origin has set both).
Messages ==
    [originator : GUIDs, id : {None}, broadcast_timestamp : {None}]
    \cup [originator : GUIDs, id : MsgIds, broadcast_timestamp : {Now}]

\* message.originator == client (Peer.__eq__, GUID.__eq__), timestamp and id None
IsOrigin(g, msg) ==
    /\ msg.originator = g
    /\ msg.broadcast_timestamp = None
    /\ msg.id = None

\* the keys of the request body that Message.__init__ takes (body, the
\* payload, is left out of the model)
MessageKeys == {"originator", "id", "broadcast_timestamp"}

\* (mutation) Message takes any key and drops those it does not know
UnexpectedIgnored(msg) == FALSE

\* Message(**msg_dct) gets a keyword argument that __init__ does not have
Unexpected(msg) == DOMAIN msg \ MessageKeys # {}

\* The handler raises, and answers 500 having written nothing: Message(**msg_dct)
\* is a TypeError for an unexpected key; GUID.__eq__ reads other.id of a client
\* GUID that is None; None > int is a TypeError.
Raises(g, msg) ==
    \/ Unexpected(msg)
    \/ g = None
    \/ ~IsOrigin(g, msg) /\ msg.id = None

\* (mutation) a message as old as the counter passes for new
IsNewOrEqual(id, count) == id >= count

\* (mutation) a message passes for new when its id differs from the counter
IsDifferent(id, count) == id # count

\* (mutation) every message that is sent on passes for new
IsNewAlways(id, count) == TRUE

\* message.id > cache.message_id_count
IsNew(id, count) == id > count

\* (mutation) the id of a new message is not stored
KeepCount(count, id) == count

\* cache.message_id_count = message.id
StoreCount(count, id) == id

\* (mutation) the originator takes the counter as it is for the id
SameCount(count) == count

\* cache.message_id_count += 1
IncrementCount(count) == count + 1

\* the path the handler takes once the request body is read
BroadcastBranch(g, count, msg) ==
    CASE Raises(g, msg) -> "raise"
      [] IsOrigin(g, msg) -> "origin"
      [] IsNew(msg.id, count) -> "new"
      [] OTHER -> "old"

\* (mutation) the id of a message that is turned down is stored as well
BroadcastCountStoresOld(branch, count, msg) ==
    CASE branch = "origin" -> IncrementCount(count)
      [] branch \in {"new", "old"} -> StoreCount(count, msg.id)
      [] OTHER -> count

\* cache.message_id_count when the handler reaches its fan-out or its return
BroadcastCount(branch, count, msg) ==
    CASE branch = "origin" -> IncrementCount(count)
      [] branch = "new" -> StoreCount(count, msg.id)
      [] OTHER -> count

\* (mutation) the origin sends the message on as it came
OutgoingUnstamped(branch, newcount, msg) == msg

\* the message as the handler sends it on: the origin has set id and timestamp
Outgoing(branch, newcount, msg) ==
    IF branch = "origin"
    THEN [msg EXCEPT !.id = newcount, !.broadcast_timestamp = Now]
    ELSE msg

\* the step answered no /broadcast request
NoReply == [retval |-> "none"]

\* the answer to the request that carried msg: "true" or "false" for the
\* should_broadcast the handler returns, "error" (500) when it raises; failed
\* are the peers of its fan-out that could not be reached
Reply(msg, retval, failed) == [retval |-> retval, msg |-> msg, failed |-> failed]

\* the handlers suspended at pc
At(pc) == {h \in BagToSet(bcast) : h.pc = pc}

\* the event loop is stuck in a handler that never reaches its next await
Hung == \E h \in BagToSet(bcast) : h.pc = "spin"

\* A request arrives: the handler starts and awaits the body (the request
\* carries msg; the handler has read nothing of it yet).
BroadcastBegin(msg) ==
    /\ ~Hung
    /\ BagCardinality(bcast) < MaxReq
    /\ bcast' = bcast (+) SetToBag({[pc |-> "json", msg |-> msg, raced |-> FALSE]})
    /\ UNCHANGED <<guid, message_id_count, forwards>>
    /\ UNCHANGED join_vars

\* history: the suspended requests that carry the id of the new message msg
\* this step forwards are marked (raced): they lost the race for that id
MarkRaced(b, branch, msg) ==
    LET lost(h) == branch = "new" /\ h.pc = "json" /\ h.msg.id = msg.id
        mark(h) == IF lost(h) THEN [h EXCEPT !.raced = TRUE] ELSE h
        S == BagToSet(b)
    IN  [k \in {mark(h) : h \in S} |->
            (IF k \in S /\ mark(k) = k THEN b[k] ELSE 0)
            + (IF k.raced /\ [k EXCEPT !.raced = FALSE] \in S
                  /\ lost([k EXCEPT !.raced = FALSE])
               THEN b[[k EXCEPT !.raced = FALSE]] ELSE 0)]

\* client.get_peers(...) of a handler whose should_broadcast is True
Fan(branch, alive, known) ==
    IF branch \in {"origin", "new"}
    THEN GetPeers(guid, guid_map, network_guid, alive, known)
    ELSE [outcome |-> "none", peers |-> <<>>, guid_map |-> guid_map]

\* The handler from the body read to its next await that leaves requests in
\* flight: that of its fan-out (asyncio.gather) when should_broadcast is True.
\* When it is False the handler only closes the session it has just made and
\* returns False; a handler that raises answers 500.  Both are over.  A
\* handler whose get_peers never returns keeps the event loop.
BroadcastDecide(h, alive, known) ==
    /\ ~Hung
    /\ BagIn(h, bcast)
    /\ h.pc = "json"
    /\ LET branch == BroadcastBranch(guid, message_id_count, h.msg)
           newcount == BroadcastCount(branch, message_id_count, h.msg)
           out == Outgoing(branch, newcount, h.msg)
           fan == Fan(branch, alive, known)
           rest == MarkRaced(bcast (-) SetToBag({h}), branch, h.msg)
       IN  /\ newcount <= MaxMsgId
           /\ message_id_count' = newcount
           /\ guid_map' = fan.guid_map
           /\ bcast' = CASE fan.outcome = "ok" ->
                              rest (+) SetToBag({[pc |-> "gather", msg |-> out,
                                                  raced |-> h.raced,
                                                  peers |-> fan.peers]})
                          [] fan.outcome = "hang" ->
                              rest (+) SetToBag({[pc |-> "spin", msg |-> out,
                                                  raced |-> h.raced]})
                          [] OTHER -> rest
           /\ forwards' = IF branch \in {"origin", "new"}
                          THEN Append(forwards,
                                      [originator |-> out.originator,
                                       id |-> out.id,
                                       origin |-> branch = "origin"])
                          ELSE forwards
    /\ UNCHANGED guid
    /\ UNCHANGED <<is_boot_node, network_guid, join, join_reply, solo, issued>>

\* The fan-out is over: failed are the peers whose request could not be sent
\* or was not answered (session.put raises).  asyncio.gather hands the first
\* exception to the handler, which answers 500; with no exception the handler
\* closes the session and returns True.
BroadcastReturn(h, failed) ==
    /\ ~Hung
    /\ BagIn(h, bcast)
    /\ h.pc = "gather"
    /\ failed \subseteq Range(h.peers)
    /\ bcast' = bcast (-) SetToBag({h})
    /\ UNCHANGED <<guid, message_id_count, forwards>>
    /\ UNCHANGED join_vars

(***************************************************************************)
(* The node seen through its broadcast endpoint.  Its identity is what a   *)
(* join has stored in cache.guid, or None as long as it has not joined.    *)
(***************************************************************************)
InitBroadcast ==
    /\ is_boot_node = FALSE
    /\ guid \in GUIDs \cup {None}
    /\ network_guid = guid
    /\ guid_map = <<>>
    /\ join = EmptyBag
    /\ join_reply = NoJoin
    /\ solo = FALSE
    /\ issued = <<>>
    /\ message_id_count = 0
    /\ bcast = EmptyBag
    /\ forwards = <<>>
    /\ bcast_reply = NoReply
    /\ bcast_from = None
    /\ InitDaemon

NextBroadcast ==
    \/ \E msg \in Messages : BroadcastBegin(msg) /\ UNCHANGED <<bcast_history, not_api>>
    \/ \E h \in BagToSet(bcast) :
          BroadcastDecide(h, GUIDs, GUIDs) /\ UNCHANGED <<bcast_history, not_api>>
    \/ \E h \in BagToSet(bcast) :
          BroadcastReturn(h, {}) /\ UNCHANGED <<bcast_history, not_api>>

SpecBroadcast == InitBroadcast /\ [][NextBroadcast]_vars

(***************************************************************************)
(* The same node, its requests taken one after the other and each with its *)
(* answer.  The request bodies are those of Messages and those of the      *)
(* wire format that carries a ttl and a seen_by list.                      *)
(***************************************************************************)
\* the answer of the step BroadcastDecide(h, alive, known): a handler that
\* forwards has not answered yet
DecideReply(h, alive, known) ==
    LET branch == BroadcastBranch(guid, message_id_count, h.msg)
    IN  CASE branch = "old" -> Reply(h.msg, "false", {})
          [] branch = "raise" -> Reply(h.msg, "error", {})
          [] Fan(branch, alive, known).outcome = "raise" -> Reply(h.msg, "error", {})
          [] OTHER -> NoReply

\* the answer of the step BroadcastReturn(h, failed)
ReturnReply(h, failed) ==
    Reply(h.msg, IF failed = {} THEN "true" ELSE "error", failed)

\* request bodies with the keys ttl and seen_by: a hop budget that is spent
\* or not, a seen_by list that is empty or names one node
TtlMessages ==
    {m \in [originator : GUIDs, id : MsgIds \cup {None},
            broadcast_timestamp : {None, Now},
            ttl : {0, 1}, seen_by : {{}} \cup {{g} : g \in GUIDs}] :
        m.id = None <=> m.broadcast_timestamp = None}

\* The nodes a request with body msg may come from: a body without id comes
\* from a client (None); a message that is sent on comes from a node that has
\* this one on its ring, as a primary or as a backup peer.
Senders(msg) ==
    IF msg.id = None THEN {None}
    ELSE {s \in GUIDs \ {guid} :
             \E guid_max \in GUIDs :
                 s <= guid_max /\ Index(GetNetwork(s, guid_max), guid) > 1}

\* The sender of the last request takes its answer.
RequestAnswered ==
    /\ bcast = EmptyBag
    /\ bcast_reply # NoReply
    /\ bcast_reply' = NoReply
    /\ bcast_from' = None
    /\ UNCHANGED <<guid, message_id_count, bcast, forwards>>
    /\ UNCHANGED join_vars
    /\ UNCHANGED not_api

NextRequest ==
    \/ \E msg \in Messages \cup TtlMessages :
          /\ bcast = EmptyBag
          /\ bcast_reply = NoReply
          /\ BroadcastBegin(msg)
          /\ bcast_reply' = NoReply
          /\ bcast_from' = None
          /\ UNCHANGED not_api
    \/ \E h \in BagToSet(bcast), alive \in SUBSET GUIDs :
          \E sender \in Senders(h.msg) :
              /\ BroadcastDecide(h, alive, GUIDs)
              /\ bcast_reply' = DecideReply(h, alive, GUIDs)
              /\ bcast_from' = sender
              /\ UNCHANGED not_api
    \/ \E h \in At("gather"), failed \in SUBSET GUIDs :
          /\ BroadcastReturn(h, failed)
          /\ bcast_reply' = ReturnReply(h, failed)
          /\ UNCHANGED <<bcast_from, not_api>>
    \/ RequestAnswered

\* the node knows a highest GUID that is its own or one above it
InitRequest ==
    /\ is_boot_node = FALSE
    /\ guid \in GUIDs \cup {None}
    /\ network_guid \in IF guid = None THEN {None} ELSE {g \in GUIDs : g >= guid}
    /\ guid_map = <<>>
    /\ join = EmptyBag
    /\ join_reply = NoJoin
    /\ solo = FALSE
    /\ issued = <<>>
    /\ message_id_count = 0
    /\ bcast = EmptyBag
    /\ forwards = <<>>
    /\ bcast_reply = NoReply
    /\ bcast_from = None
    /\ InitDaemon

SpecRequest == InitRequest /\ [][NextRequest]_vars

(***************************************************************************)
(* The node seen through its join, sync and lookup endpoints.              *)
(***************************************************************************)
\* the broadcast state of a process that has handled no broadcast
InitBcast ==
    /\ guid = None
    /\ message_id_count = 0
    /\ bcast = EmptyBag
    /\ forwards = <<>>
    /\ bcast_reply = NoReply
    /\ bcast_from = None
    /\ InitDaemon

Init ==
    /\ is_boot_node \in BOOLEAN
    /\ network_guid = None
    /\ guid_map = <<>>
    /\ join = EmptyBag
    /\ join_reply = NoJoin
    /\ solo = FALSE
    /\ issued = <<>>
    /\ InitBcast

Next ==
    \/ \E a \in Addresses, d \in GUIDs \cup {None} :
          JoinBegin(a, d) /\ UNCHANGED not_api
    \/ \E h \in BagToSet(join), d \in GUIDs \cup {None} :
          JoinFinish(h, d) /\ UNCHANGED not_api
    \/ \E s \in GUIDs : Sync(s) /\ UNCHANGED not_api
    \/ \E g \in GUIDs : PeersLookup(g) /\ UNCHANGED not_api

Spec == Init /\ [][Next]_vars

(***************************************************************************)
(* The network_sync daemon (apps/node/daemons/network_sync.py).  It is a   *)
(* process of its own beside the API process; the two share the Redis      *)
(* store, where every get and every set is atomic and nothing else is.     *)
(* The scheduler runs one job at a time.                                   *)
(***************************************************************************)
PeerIds == 0..MaxPeer

\* Cache.guid (getter): the Redis key, else the content of the file
CacheGuid == IF guid # None THEN guid ELSE guid_file

\* Cache.guid (setter): what the file holds after cache.guid = value
GuidFileWritten(value) == IF guid_file = None THEN value ELSE guid_file

\* client.get_peer_guids(guid_max): the primary peers of the ring 0..guid_max;
\* without a highest GUID the ring cannot be computed and the job fails
PeerGuids(g, guid_max) ==
    IF guid_max = None
    THEN [ok |-> FALSE, guids |-> <<>>]
    ELSE [ok |-> TRUE, guids |-> GetPrimaryPeers(g, guid_max)]

\* (mutation) the daemon sends its own GUID only
SyncValueOwn(g, ng) == g

\* max(cache.guid, cache.network_guid)
SyncValue(g, ng) == Max(g, ng)

\* the daemon is in the loop over its peers
Ticking == tick.pc \in {"sync", "wait"}

\* The job begins: it reads cache.guid and, for a client that has an
\* identity, cache.network_guid, from which it computes its peers.  A client
\* without identity sends its join request to the boot node.
TickBegin ==
    /\ tick.pc = "idle"
    /\ IF is_boot_node
       THEN UNCHANGED <<guid, tick>>
       ELSE IF CacheGuid = None
       THEN /\ tick' = [pc |-> "join"]
            /\ UNCHANGED guid
       ELSE LET peers == PeerGuids(CacheGuid, network_guid)
            IN  /\ guid' = CacheGuid
                /\ tick' = IF peers.ok
                           THEN [pc |-> "sync", todo |-> peers.guids,
                                 before |-> {network_guid}, quiet |-> TRUE]
                           ELSE IdleTick
    /\ UNCHANGED <<network_guid, guid_map, guid_file, sync>>
    /\ UNCHANGED not_daemon

\* The boot node has answered the join request with GUID g.
TickJoined(g) ==
    /\ tick.pc = "join"
    /\ guid' = g
    /\ guid_file' = GuidFileWritten(g)
    /\ network_guid' = g
    /\ tick' = IdleTick
    /\ UNCHANGED <<guid_map, sync>>
    /\ UNCHANGED not_daemon

\* A request of the job has raised (the boot node or a peer is unreachable or
\* answers with an error status): the job ends there.
TickFail ==
    /\ tick.pc \in {"join", "wait"}
    /\ tick' = IdleTick
    /\ UNCHANGED <<network_guid, guid_map, guid, guid_file, sync>>
    /\ UNCHANGED not_daemon

\* The job resolves the address of its next peer and sends it the highest
\* GUID it knows.  How it resolves the address and stores it
\* (network_sync.py:54-62) is followed by SpecMap, not here.
TickSend ==
    /\ tick.pc = "sync"
    /\ tick.todo # <<>>
    /\ guid' = CacheGuid
    /\ tick' = IF CacheGuid = None \/ network_guid = None
               THEN IdleTick
               ELSE [pc |-> "wait", todo |-> tick.todo,
                     sent |-> SyncValue(CacheGuid, network_guid),
                     before |-> tick.before, quiet |-> tick.quiet]
    /\ UNCHANGED <<network_guid, guid_map, guid_file, sync>>
    /\ UNCHANGED not_daemon

\* The peer, whose highest known GUID was theirs, has answered as /sync
\* answers; the job stores the answer.
TickReceive(theirs) ==
    /\ tick.pc = "wait"
    /\ network_guid' = SyncNetworkGuid(tick.sent, theirs)
    /\ tick' = [pc |-> "sync", todo |-> Tail(tick.todo),
                before |-> tick.before \cup ({theirs} \ {None}),
                quiet |-> tick.quiet]
    /\ UNCHANGED <<guid_map, guid, guid_file, sync>>
    /\ UNCHANGED not_daemon

\* The job has gone through its peers and returns.
TickEnd ==
    /\ tick.pc = "sync"
    /\ tick.todo = <<>>
    /\ tick' = IdleTick
    /\ UNCHANGED <<network_guid, guid_map, guid, guid_file, sync>>
    /\ UNCHANGED not_daemon

\* /sync in the API process, which handles one such request at a time: it
\* gets cache.network_guid, ...
SyncRead(s) ==
    /\ sync.pc \in {"none", "done"}
    /\ sync' = [pc |-> "read", s |-> s, r |-> network_guid]
    /\ UNCHANGED <<network_guid, guid_map, guid, guid_file, tick>>
    /\ UNCHANGED not_daemon

\* ... sets it, ...
SyncWrite ==
    /\ sync.pc = "read"
    /\ network_guid' = SyncNetworkGuid(sync.s, sync.r)
    /\ sync' = [pc |-> "written", s |-> sync.s, r |-> sync.r]
    /\ tick' = IF Ticking THEN [tick EXCEPT !.quiet = FALSE] ELSE tick
    /\ UNCHANGED <<guid_map, guid, guid_file>>
    /\ UNCHANGED not_daemon

\* ... and gets it again for its answer.
SyncReturn ==
    /\ sync.pc = "written"
    /\ sync' = [pc |-> "done", retval |-> network_guid]
    /\ UNCHANGED <<network_guid, guid_map, guid, guid_file, tick>>
    /\ UNCHANGED not_daemon

\* cache.guid = value, the store operation by itself
SetGuid(value) ==
    /\ guid' = value
    /\ guid_file' = GuidFileWritten(value)
    /\ UNCHANGED <<network_guid, guid_map, tick, sync>>
    /\ UNCHANGED not_daemon

\* The node restarts: its processes begin anew, and with flush the Redis
\* store comes back empty.  The file stays.
Restart(flush) ==
    /\ tick' = IdleTick
    /\ sync' = NoSync
    /\ IF flush
       THEN guid' = None /\ network_guid' = None /\ guid_map' = <<>>
       ELSE UNCHANGED <<guid, network_guid, guid_map>>
    /\ UNCHANGED guid_file
    /\ UNCHANGED not_daemon

\* A client process that starts on an empty Redis store, with or without an
\* identity on file from an earlier life.
InitSync ==
    /\ is_boot_node \in BOOLEAN
    /\ network_guid = None
    /\ guid_map = <<>>
    /\ join = EmptyBag
    /\ join_reply = NoJoin
    /\ solo = FALSE
    /\ issued = <<>>
    /\ guid = None
    /\ message_id_count = 0
    /\ bcast = EmptyBag
    /\ forwards = <<>>
    /\ bcast_reply = NoReply
    /\ bcast_from = None
    /\ guid_file \in PeerIds \cup {None}
    /\ tick = IdleTick
    /\ sync = NoSync
    /\ ring = NoRing
    /\ upsert = NoUpsert
    /\ setitem = NoSetItem
    /\ InitCluster

NextTick ==
    \/ TickBegin
    \/ \E g \in PeerIds : TickJoined(g)
    \/ TickFail
    \/ TickSend
    \/ \E theirs \in PeerIds \cup {None} : TickReceive(theirs)
    \/ TickEnd

NextSync ==
    \/ \E s \in PeerIds : SyncRead(s)
    \/ SyncWrite
    \/ SyncReturn

NextDaemon ==
    \/ NextTick
    \/ NextSync

SpecDaemon == InitSync /\ [][NextDaemon]_vars

\* The identity of the node under the daemon's job, restarts and writes of
\* cache.guid.
NextIdentity ==
    \/ NextTick
    \/ \E value \in PeerIds : SetGuid(value)
    \/ \E flush \in BOOLEAN : Restart(flush)

SpecIdentity == InitSync /\ [][NextIdentity]_vars

(***************************************************************************)
(* A healthy cluster: the nodes 0..MaxNode have joined, no other node      *)
(* joins, every node's daemon keeps running its job and every request is   *)
(* answered.  Each node's API handles a /sync request as one step.         *)
(***************************************************************************)
Nodes == 0..MaxNode

\* the job of node n begins
ClusterBegin(n) ==
    /\ jobs[n].pc = "idle"
    /\ LET peers == PeerGuids(n, knows[n])
       IN  jobs' = [jobs EXCEPT ![n] =
                       IF peers.ok THEN [pc |-> "sync", todo |-> peers.guids]
                       ELSE IdleTick]
    /\ UNCHANGED knows

\* node n sends the highest GUID it knows to its next peer
ClusterSend(n) ==
    /\ jobs[n].pc = "sync"
    /\ jobs[n].todo # <<>>
    /\ jobs' = [jobs EXCEPT ![n] = [pc |-> "wait", todo |-> jobs[n].todo,
                                    sent |-> SyncValue(n, knows[n])]]
    /\ UNCHANGED knows

\* the peer handles the /sync request of node n
ClusterSync(n) ==
    /\ jobs[n].pc = "wait"
    /\ LET p == Head(jobs[n].todo)
           theirs == SyncNetworkGuid(jobs[n].sent, knows[p])
       IN  /\ knows' = [knows EXCEPT ![p] = theirs]
           /\ jobs' = [jobs EXCEPT ![n] = [pc |-> "answered", todo |-> jobs[n].todo,
                                           retval |-> theirs]]

\* node n stores the peer's answer
ClusterReceive(n) ==
    /\ jobs[n].pc = "answered"
    /\ knows' = [knows EXCEPT ![n] = jobs[n].retval]
    /\ jobs' = [jobs EXCEPT ![n] = [pc |-> "sync", todo |-> Tail(jobs[n].todo)]]

\* the job of node n returns
ClusterEnd(n) ==
    /\ jobs[n].pc = "sync"
    /\ jobs[n].todo = <<>>
    /\ jobs' = [jobs EXCEPT ![n] = IdleTick]
    /\ UNCHANGED knows

\* a step of the job of node n, or of the peer that answers it
ClusterStep(n) ==
    \/ ClusterBegin(n) /\ UNCHANGED node_vars
    \/ ClusterSend(n) /\ UNCHANGED node_vars
    \/ ClusterSync(n) /\ UNCHANGED node_vars
    \/ ClusterReceive(n) /\ UNCHANGED node_vars
    \/ ClusterEnd(n) /\ UNCHANGED node_vars

InitNode ==
    /\ is_boot_node = FALSE
    /\ network_guid = None
    /\ guid_map = <<>>
    /\ join = EmptyBag
    /\ join_reply = NoJoin
    /\ solo = FALSE
    /\ issued = <<>>
    /\ InitBcast

NextCluster == \E n \in Nodes : ClusterStep(n)

\* every node's job keeps running, and every request is answered
FairCluster == \A n \in Nodes : WF_vars(ClusterStep(n))

SpecCluster == InitNode /\ [][NextCluster]_vars /\ FairCluster

\* the highest GUID the boot node has issued
Highest == MaxNode

(***************************************************************************)
(* The ring computations of class GUID by themselves (models.py:47-167):   *)
(* a call is made with arguments of the range 0..MaxRing and returns.      *)
(***************************************************************************)
RingIds == 0..MaxRing

\* the GUIDs a caller may pass as start_guid and stop_guid: those of the
\* largest ring and one beyond it
RingArgs == 0..(MaxRing + 1)

\* GUID(self)._get_network(guid_max) returns
RingNetwork ==
    /\ ring.pc = "input"
    /\ ring' = [pc |-> "network", self |-> ring.self, guid_max |-> ring.guid_max,
                out |-> GetNetwork(ring.self, ring.guid_max)]

\* GUID(self).get_primary_peers(guid_max) returns
RingPrimary ==
    /\ ring.pc = "input"
    /\ ring' = [pc |-> "primary", self |-> ring.self, guid_max |-> ring.guid_max,
                out |-> GetPrimaryPeers(ring.self, ring.guid_max)]

\* GUID(self).get_backup_peers(start_guid, stop_guid, guid_max) returns or
\* raises
RingBackup(start_guid, stop_guid) ==
    /\ ring.pc = "input"
    /\ ring' = [pc |-> "backup", self |-> ring.self, guid_max |-> ring.guid_max,
                start_guid |-> start_guid, stop_guid |-> stop_guid,
                out |-> GetBackupPeers(ring.self, start_guid, stop_guid,
                                       ring.guid_max)]

\* a call on GUID(self) with highest GUID guid_max, on a node at rest
InitRing ==
    /\ ring \in {[pc |-> "input", self |-> g, guid_max |-> m] :
                    g \in RingIds, m \in RingIds}
    /\ is_boot_node = FALSE
    /\ network_guid = None
    /\ guid_map = <<>>
    /\ join = EmptyBag
    /\ join_reply = NoJoin
    /\ solo = FALSE
    /\ issued = <<>>
    /\ guid = None
    /\ message_id_count = 0
    /\ bcast = EmptyBag
    /\ forwards = <<>>
    /\ bcast_reply = NoReply
    /\ bcast_from = None
    /\ guid_file = None
    /\ tick = IdleTick
    /\ sync = NoSync
    /\ upsert = NoUpsert
    /\ setitem = NoSetItem
    /\ InitCluster

ring_rest == <<is_boot_node, network_guid, guid_map, join, join_reply, solo,
               issued, guid, message_id_count, bcast, forwards, bcast_reply,
               bcast_from, guid_file, tick, sync, knows, jobs, upsert, setitem>>

NextRing ==
    \/ RingNetwork /\ UNCHANGED ring_rest
    \/ RingPrimary /\ UNCHANGED ring_rest
    \/ \E start_guid \in RingArgs, stop_guid \in RingArgs :
          RingBackup(start_guid, stop_guid) /\ UNCHANGED ring_rest

SpecRing == InitRing /\ [][NextRing]_vars

(***************************************************************************)
(* The store of a node that is not a boot node: the GUIDs it has seen and  *)
(* their addresses.  It is written by Database.ensure_node (db.py:64-71)   *)
(* and by the lookups of Peer.get_peers (models.py:272-314).  A peer may   *)
(* have moved since the node first saw it: the boot node resolves its GUID *)
(* to the address it has now.                                              *)
(***************************************************************************)
StoreIds == 0..MaxStore

\* the address the peer with GUID g had before it re-joined from AddressOf(g)
MovedFrom(g) == AddressOf(g) + MaxStore + 1

\* (mutation) INSERT ... ON CONFLICT (guid) DO UPDATE SET address
EnsureNodeUpdates(m, address, g) == SetItem(m, g, address)

\* INSERT INTO nodes (address, guid) ... ON CONFLICT DO NOTHING: address and
\* guid are both unique
EnsureNodeMap(m, address, g) ==
    IF Contains(m, g) \/ BoundTo(m, address) # {}
    THEN m
    ELSE Append(m, [guid |-> g, address |-> address])

\* ensure_node(address, guid)
EnsureNode(address, g) ==
    /\ guid_map' = EnsureNodeMap(guid_map, address, g)
    /\ upsert' = [op |-> "ensure_node", guid |-> g, address |-> address]

\* client.get_peers(cache.guid_map, cache.network_guid, settings.boot_node),
\* as the /broadcast handler calls it: alive are the peers that answer, known
\* the GUIDs the boot node resolves
StoreGetPeers(alive, known) ==
    /\ guid_map' = GetPeers(guid, guid_map, network_guid, alive, known).guid_map
    /\ upsert' = [op |-> "get_peers"]

\* a node that has joined and knows the highest GUID, its store empty
InitStore ==
    /\ is_boot_node = FALSE
    /\ guid \in StoreIds
    /\ network_guid = MaxStore
    /\ guid_map = <<>>
    /\ join = EmptyBag
    /\ join_reply = NoJoin
    /\ solo = FALSE
    /\ issued = <<>>
    /\ message_id_count = 0
    /\ bcast = EmptyBag
    /\ forwards = <<>>
    /\ bcast_reply = NoReply
    /\ bcast_from = None
    /\ InitDaemon

store_rest == <<is_boot_node, network_guid, join, join_reply, solo, issued, guid,
                message_id_count, bcast, forwards, bcast_reply, bcast_from,
                guid_file, tick, sync, knows, jobs, ring, setitem>>

NextStore ==
    \/ \E g \in StoreIds : \E address \in {AddressOf(g), MovedFrom(g)} :
          EnsureNode(address, g) /\ UNCHANGED store_rest
    \/ \E alive \in SUBSET StoreIds, known \in {{}, StoreIds} :
          StoreGetPeers(alive, known) /\ UNCHANGED store_rest

SpecStore == InitStore /\ [][NextStore]_vars

(***************************************************************************)
(* Peer.get_peers by itself (models.py:227-316): one call on a node that   *)
(* has joined, with any store of addresses, any set of peers that answer,  *)
(* and a boot node that resolves every GUID or none.                       *)
(***************************************************************************)
KnownIds == 0..MaxKnown

RECURSIVE MapOver(_)
\* a guid_map that binds the GUIDs of K to their addresses
MapOver(K) ==
    IF K = {} THEN <<>>
    ELSE LET g == CHOOSE x \in K : \A y \in K : x <= y
         IN  <<[guid |-> g, address |-> AddressOf(g)]>> \o MapOver(K \ {g})

\* client.get_peers(cache.guid_map, cache.network_guid, settings.boot_node)
\* is called; outcome "hang" is a call that stays in one of its loops
PeersCall(alive, known) ==
    /\ upsert = NoUpsert
    /\ LET r == GetPeers(guid, guid_map, network_guid, alive, known)
       IN  /\ guid_map' = r.guid_map
           /\ upsert' = [op |-> "get_peers", alive |-> alive, known |-> known,
                         store |-> guid_map, outcome |-> r.outcome,
                         peers |-> r.peers]

\* a node that has joined, knows a highest GUID and the addresses of some of
\* the other nodes
InitPeers ==
    /\ is_boot_node = FALSE
    /\ guid \in KnownIds
    /\ network_guid \in {g \in KnownIds : g >= guid}
    /\ guid_map \in {MapOver(K) : K \in SUBSET ((0..network_guid) \ {guid})}
    /\ join = EmptyBag
    /\ join_reply = NoJoin
    /\ solo = FALSE
    /\ issued = <<>>
    /\ message_id_count = 0
    /\ bcast = EmptyBag
    /\ forwards = <<>>
    /\ bcast_reply = NoReply
    /\ bcast_from = None
    /\ InitDaemon

NextPeers ==
    \E alive \in SUBSET ((0..network_guid) \ {guid}),
       known \in {{}, 0..network_guid} :
        PeersCall(alive, known) /\ UNCHANGED store_rest

SpecPeers == InitPeers /\ [][NextPeers]_vars

(***************************************************************************)
(* The GUID-to-address map of a node under its two writers: the API        *)
(* process (Peer.get_peers in the /broadcast handler) and the network_sync *)
(* daemon, two processes on one Redis store.  Each step is one Redis       *)
(* command.                                                                *)
(***************************************************************************)

\* cache.guid_address_map (getter), as the daemon reads it: the node's
\* GUID-to-address map
GuidAddressMap == guid_map

\* RedisDict.__setitem__, d = self._get(); d[k] = v: the API process has
\* read the pickled dict and holds the copy with the new item
SetItemGet(g) ==
    /\ setitem = NoSetItem
    /\ g \in (0..network_guid) \ {guid}
    /\ Get(guid_map, g) = None
    /\ setitem' = [pc |-> "set", guid |-> g, d |-> SetItem(guid_map, g, AddressOf(g))]
    /\ UNCHANGED <<guid_map, tick>>

\* RedisDict.__setitem__, self._set(d): the copy replaces the dict
SetItemSet ==
    /\ setitem.pc = "set"
    /\ guid_map' = setitem.d
    /\ setitem' = NoSetItem
    /\ UNCHANGED tick

\* The job reads the map for its next peer, finds no address and asks the
\* boot node.
ResolveGet(g) ==
    /\ tick = IdleTick
    /\ PeerGuids(guid, network_guid).ok
    /\ g \in Range(PeerGuids(guid, network_guid).guids)
    /\ Get(GuidAddressMap, g) = None
    /\ tick' = [pc |-> "resolve", guid |-> g, guid_address_map |-> GuidAddressMap]
    /\ UNCHANGED <<guid_map, setitem>>

\* The boot node has answered: the job puts the address into the map it
\* read and writes that map back.
ResolveSet ==
    /\ tick.pc = "resolve"
    /\ guid_map' = SetItem(tick.guid_address_map, tick.guid, AddressOf(tick.guid))
    /\ tick' = IdleTick
    /\ UNCHANGED setitem

\* a node that has joined and knows the highest GUID, its map empty
InitMap ==
    /\ is_boot_node = FALSE
    /\ guid \in StoreIds
    /\ network_guid = MaxStore
    /\ guid_map = <<>>
    /\ join = EmptyBag
    /\ join_reply = NoJoin
    /\ solo = FALSE
    /\ issued = <<>>
    /\ message_id_count = 0
    /\ bcast = EmptyBag
    /\ forwards = <<>>
    /\ bcast_reply = NoReply
    /\ bcast_from = None
    /\ InitDaemon

map_rest == <<is_boot_node, network_guid, join, join_reply, solo, issued, guid,
              message_id_count, bcast, forwards, bcast_reply, bcast_from,
              guid_file, sync, knows, jobs, ring, upsert>>

NextMap ==
    \/ \E g \in StoreIds : SetItemGet(g) /\ UNCHANGED map_rest
    \/ SetItemSet /\ UNCHANGED map_rest
    \/ \E g \in StoreIds : ResolveGet(g) /\ UNCHANGED map_rest
    \/ ResolveSet /\ UNCHANGED map_rest

SpecMap == InitMap /\ [][NextMap]_vars

(***************************************************************************)
(* A node of a larger network in a flood: its /broadcast handlers, with    *)
(* the peers of its ring answering or not.  The boot node resolves every   *)
(* GUID it has handed out.                                                 *)
(***************************************************************************)
\* a node that has joined and knows the highest GUID, its store still empty
InitFlood ==
    /\ is_boot_node = FALSE
    /\ guid \in KnownIds
    /\ network_guid = MaxKnown
    /\ guid_map = <<>>
    /\ join = EmptyBag
    /\ join_reply = NoJoin
    /\ solo = FALSE
    /\ issued = <<>>
    /\ message_id_count = 0
    /\ bcast = EmptyBag
    /\ forwards = <<>>
    /\ bcast_reply = NoReply
    /\ bcast_from = None
    /\ InitDaemon

NextFlood ==
    \/ \E msg \in Messages : BroadcastBegin(msg) /\ UNCHANGED <<bcast_history, not_api>>
    \/ \E h \in BagToSet(bcast), alive \in SUBSET ((0..network_guid) \ {guid}) :
          BroadcastDecide(h, alive, 0..network_guid)
          /\ UNCHANGED <<bcast_history, not_api>>
    \/ \E h \in BagToSet(bcast) :
          BroadcastReturn(h, {}) /\ UNCHANGED <<bcast_history, not_api>>

SpecFlood == InitFlood /\ [][NextFlood]_vars

\* a step in which a join handler of the boot node returns
JoinReturns == BagCardinality(join') < BagCardinality(join)

\* every binding of m other than that of g is the same in n
SameButFor(m, n, g) ==
    /\ Keys(n) = Keys(m) \cup {g}
    /\ \A k \in Keys(m) \ {g} : Get(n, k) = Get(m, k)

(***************************************************************************)
(* C1.  On the boot node every fresh allocation returns a GUID strictly    *)
(* greater than every GUID issued before it, under any interleaving of     *)
(* join, lookup and sync requests: no GUID is issued to two fresh joiners. *)
(***************************************************************************)
C1_FreshGuidsIncrease ==
    \A i, j \in DOMAIN issued : i < j => issued[i] < issued[j]

\* two GUIDs have been issued while another join request was in flight
C1_Witness ==
    /\ is_boot_node
    /\ Len(issued) >= 2
    /\ join # EmptyBag

(***************************************************************************)
(* C2.  Of two successive join requests without a GUID from one address    *)
(* the second returns the GUID of the first and leaves the GUID map and    *)
(* the allocation counter as they were.                                    *)
(***************************************************************************)
C2_SecondJoinSameGuid ==
    [][(JoinReturns /\ join_reply'.second) =>
          /\ join_reply'.retval = join_reply.retval
          /\ join_reply'.retval.guid # None
          /\ guid_map' = guid_map
          /\ network_guid' = network_guid
          /\ issued' = issued]_vars

\* the second of two such requests has returned, with a GUID
C2_Witness ==
    /\ join_reply.second
    /\ join_reply.retval.guid \in GUIDs
    /\ Get(guid_map, join_reply.retval.guid) = join_reply.sender

(***************************************************************************)
(* C3.  A boot node with empty state answers the first join request        *)
(* (empty body) with GUID 1, and GUID 0 is never issued to a joiner.       *)
(***************************************************************************)
C3_FirstJoinGetsGuidOne ==
    [][/\ (JoinReturns /\ network_guid = None /\ guid_map = <<>>
             /\ join_reply'.data = None) => join_reply'.retval.guid = 1
       /\ 0 \notin Range(issued')]_vars

(***************************************************************************)
(* C4.  A join that presents a GUID the boot node has issued rebinds that  *)
(* GUID to the sender's address and returns (sender address, that GUID);   *)
(* no GUID is allocated and the highest GUID is unchanged.                 *)
(***************************************************************************)
C4_RejoinRebinds ==
    [][(JoinReturns /\ join_reply'.data \in Range(issued)) =>
          LET g == join_reply'.data
              a == join_reply'.sender
          IN  /\ join_reply'.retval = [address |-> a, guid |-> g]
              /\ Get(guid_map', g) = a
              /\ SameButFor(guid_map, guid_map', g)
              /\ Keys(guid_map') = Keys(guid_map)
              /\ network_guid' = network_guid
              /\ issued' = issued]_vars

\* a rejoin has moved a GUID from another address to the sender's
C4_Witness ==
    /\ join_reply.data \in GUIDs
    /\ join_reply.retval.guid = join_reply.data
    /\ join_reply.was \in Addresses \ {join_reply.sender}
    /\ Get(guid_map, join_reply.data) = join_reply.sender

(***************************************************************************)
(* C5.  A join that presents a GUID that was never issued is refused: the  *)
(* response is empty, the GUID map and the allocation counter unchanged.   *)
(***************************************************************************)
C5_UnknownGuidRefused ==
    [][(JoinReturns /\ join_reply'.data \in GUIDs \ Range(issued)) =>
          /\ join_reply'.retval = EmptyResponse
          /\ guid_map' = guid_map
          /\ network_guid' = network_guid
          /\ issued' = issued]_vars

\* a GUID no greater than the highest known one, yet never issued, was refused
C5_Witness ==
    /\ is_boot_node
    /\ join_reply.data \in GUIDs \ Range(issued)
    /\ join_reply.data <= network_guid
    /\ join_reply.retval = EmptyResponse

(***************************************************************************)
(* C6.  On a node that is no boot node a join request returns the empty    *)
(* response and changes nothing in the store: no GUID is allocated, no     *)
(* binding added.                                                          *)
(***************************************************************************)
C6_NonBootJoinChangesNothing ==
    [][(~is_boot_node /\ join_reply' # join_reply) =>
          /\ join_reply'.retval = EmptyResponse
          /\ guid_map' = guid_map
          /\ network_guid' = network_guid
          /\ issued' = issued
          /\ join' = join]_vars

\* a node that is no boot node, and knows a network GUID, has answered a join
C6_Witness ==
    /\ ~is_boot_node
    /\ network_guid # None
    /\ join_reply.sender \in Addresses
    /\ join_reply.retval = EmptyResponse

\* the number of handlers in b that are suspended at the read of message m
Waiting(m, b) ==
    CopiesIn([pc |-> "json", msg |-> m, raced |-> FALSE], b)
    + CopiesIn([pc |-> "json", msg |-> m, raced |-> TRUE], b)

\* the number of handlers in b that wait for message m and have lost the race
WaitingRaced(m, b) == CopiesIn([pc |-> "json", msg |-> m, raced |-> TRUE], b)

\* at least two handlers in b are suspended at the read of a message with this id
TwoWaiting(id, b) ==
    LET S == {h \in BagToSet(b) : h.pc = "json" /\ h.msg.id = id}
    IN  Cardinality(S) >= 2 \/ \E h \in S : b[h] >= 2

\* the counter before the i-th forward of this node
CountBefore(i) == IF i = 1 THEN 0 ELSE forwards[i - 1].id

\* the ids of the messages the node has forwarded without originating them
Received == {forwards[i].id : i \in {j \in DOMAIN forwards : ~forwards[j].origin}}

(***************************************************************************)
(* C7.  A node's message counter never decreases, under any sequence and   *)
(* interleaving of originated and received broadcasts.                     *)
(***************************************************************************)
C7_CounterNeverDecreases ==
    [][message_id_count' >= message_id_count]_vars

\* the counter has risen by a received message and then by an origination,
\* and a message with a lower id waits to be handled
C7_Witness ==
    /\ \E i, j \in DOMAIN forwards :
          i < j /\ ~forwards[i].origin /\ forwards[j].origin
    /\ \E h \in At("json") : h.msg.id # None /\ h.msg.id < message_id_count

(***************************************************************************)
(* C8.  A node forwards a broadcast with a given (originator, id) at most  *)
(* once, however often and from however many peers it arrives.             *)
(***************************************************************************)
C8_ForwardedAtMostOnce ==
    \A i, j \in DOMAIN forwards :
        (/\ forwards[i].originator = forwards[j].originator
         /\ forwards[i].id = forwards[j].id) => i = j

\* a message the node has forwarded, and is still sending on, has arrived
\* again, from the peer that sent it first or from another
C8_Witness ==
    \E i \in DOMAIN forwards, g \in At("gather") :
        /\ ~forwards[i].origin
        /\ g.msg.originator = forwards[i].originator /\ g.msg.id = forwards[i].id
        /\ Waiting(g.msg, bcast) >= 1

(***************************************************************************)
(* C9.  When two broadcast requests that carry the same new message id are *)
(* handled concurrently by one node, exactly one of them decides to        *)
(* forward and the other returns false.                                    *)
(***************************************************************************)
\* Both are suspended at the read of the body, their id above the counter:
\* the one handled first forwards, and marks the other (raced).  A marked
\* handler, when its turn comes, returns at once: it forwards nothing, leaves
\* the counter alone and never reaches the fan-out.
C9_OneOfTwoForwards ==
    /\ [][\A h \in At("json") :
            /\ (/\ guid # None
                /\ h.msg.id # None /\ h.msg.id > message_id_count
                /\ TwoWaiting(h.msg.id, bcast)
                /\ Waiting(h.msg, bcast') < Waiting(h.msg, bcast))
               => /\ forwards' = Append(forwards,
                                        [originator |-> h.msg.originator,
                                         id |-> h.msg.id, origin |-> FALSE])
                  /\ \E g \in BagToSet(bcast') : g.pc = "gather" /\ g.msg = h.msg
                  /\ \E k \in BagToSet(bcast') :
                        k.pc = "json" /\ k.msg.id = h.msg.id /\ k.raced
                  /\ \A k \in BagToSet(bcast') :
                        (k.pc = "json" /\ k.msg.id = h.msg.id) => k.raced
            /\ (h.raced /\ WaitingRaced(h.msg, bcast') < WaitingRaced(h.msg, bcast))
               => /\ forwards' = forwards
                  /\ message_id_count' = message_id_count
                  /\ bcast' = bcast (-) SetToBag({h})]_vars
    /\ [](\A h \in At("gather") : ~h.raced)

\* of two such requests one is at its fan-out and the other has lost the race
C9_Witness ==
    \E g \in At("gather"), k \in At("json") :
        /\ k.raced
        /\ k.msg.id = g.msg.id
        /\ g.msg.id \in Received
        /\ message_id_count = g.msg.id

(***************************************************************************)
(* C10.  N concurrent increments of the message counter, by N broadcasts   *)
(* that a node originates concurrently, return exactly old+1 .. old+N: no  *)
(* two originated messages get the same id, and the counter ends at old+N. *)
(***************************************************************************)
\* every run forwards[i..j] of originations gets the ids old+1 .. old+N, where
\* old is the counter before the run; the counter is the last id handed out
C10_ConcurrentIncrements ==
    /\ \A i, j \in DOMAIN forwards :
          (i <= j /\ \A k \in i..j : forwards[k].origin)
          => forwards[j].id = CountBefore(i) + (j - i + 1)
    /\ forwards # <<>> => message_id_count = forwards[Len(forwards)].id

\* two originations of this node are at their fan-out at the same time, with
\* the ids old+1 and old+2
C10_Witness ==
    \E i \in DOMAIN forwards :
        /\ i < Len(forwards)
        /\ forwards[i].origin /\ forwards[i + 1].origin
        /\ \E g, k \in At("gather") :
              /\ g.msg.originator = guid /\ k.msg.originator = guid
              /\ g.msg.id = forwards[i].id /\ k.msg.id = forwards[i + 1].id
              /\ k.msg.id = message_id_count

\* a step in which the handler suspended at the read of h.msg goes on
Decided(h) == Waiting(h.msg, bcast') < Waiting(h.msg, bcast)

C12_TtlZeroNotForwarded ==
    [][\A h \in At("json") :
          ("ttl" \in DOMAIN h.msg /\ h.msg.ttl = 0 /\ Decided(h))
          => /\ forwards' = forwards
             /\ bcast' = bcast (-) SetToBag({h})
             /\ bcast_reply'.retval \in {"false", "error"}
             /\ message_id_count' = message_id_count
             /\ guid' = guid
             /\ guid_map' = guid_map
             /\ network_guid' = network_guid]_vars

\* a node with an identity has turned down a message with ttl 0 whose id is
\* above its counter
C12_Witness ==
    /\ guid # None
    /\ bcast_reply.retval \in {"false", "error"}
    /\ "ttl" \in DOMAIN bcast_reply.msg
    /\ bcast_reply.msg.ttl = 0
    /\ bcast_reply.msg.id # None
    /\ bcast_reply.msg.id > message_id_count
    /\ bcast_reply.msg.originator # guid

(***************************************************************************)
(* C14.  A broadcast that is not an origination and whose id is not        *)
(* greater than the receiver's message counter is not forwarded: the       *)
(* handler returns false, sends nothing and leaves the counter unchanged;  *)
(* in particular a message that comes back to its originator is rejected.  *)
(***************************************************************************)
C14_OldNotForwarded ==
    [][\A h \in At("json") :
          (/\ guid # None
           /\ DOMAIN h.msg = MessageKeys
           /\ h.msg.id # None /\ h.msg.id <= message_id_count
           /\ Decided(h))
          => /\ bcast_reply' = Reply(h.msg, "false", {})
             /\ forwards' = forwards
             /\ bcast' = bcast (-) SetToBag({h})
             /\ message_id_count' = message_id_count]_vars

\* a message the node originated has come back to it and was answered false
C14_Witness ==
    /\ bcast_reply.retval = "false"
    /\ bcast_reply.msg.originator = guid
    /\ \E i \in DOMAIN forwards :
          forwards[i].origin /\ forwards[i].id = bcast_reply.msg.id
    /\ bcast_reply.msg.id <= message_id_count


\* the gather records a step has added: the handlers that start sending
Started == {g \in BagToSet(bcast') :
               g.pc = "gather" /\ CopiesIn(g, bcast') > CopiesIn(g, bcast)}

\* the nodes a message names as having seen it
SeenBy(msg) == IF "seen_by" \in DOMAIN msg THEN msg.seen_by ELSE {}

(***************************************************************************)
(* C13.  A node that forwards a message sends it to no peer that the       *)
(* message lists in seen_by, in particular not back to the node it got     *)
(* the message from; and a node whose own GUID is in seen_by does not      *)
(* forward the message.                                                    *)
(***************************************************************************)
C13_NotSentToSeenBy ==
    [][\A h \in At("json") :
          Decided(h)
          => /\ \A g \in Started :
                   /\ Range(g.peers) \cap SeenBy(h.msg) = {}
                   /\ bcast_from' \notin Range(g.peers)
             /\ guid \in SeenBy(h.msg) => forwards' = forwards]_vars

\* how often the node has decided to forward the message (originator, id)
Forwarded(originator, id) ==
    Cardinality({i \in DOMAIN forwards :
                    forwards[i].originator = originator /\ forwards[i].id = id})

(***************************************************************************)
(* C15.  A broadcast that node A originates with TTL = k on a fully        *)
(* connected, healthy cluster is eventually handled and forwarded by every *)
(* node, and no node forwards it more than k + 1 times.  Every node        *)
(* includes A itself, whose forward is the first step of the flood: the    *)
(* node that is handed the broadcast with a hop budget k >= 1 gives it an  *)
(* id and forwards it; and a node forwards one message at most once,       *)
(* which is within k + 1 for every k.                                      *)
(***************************************************************************)
C15_FloodReachesAll ==
    /\ [][\A h \in At("json") :
            (/\ guid # None
             /\ "ttl" \in DOMAIN h.msg /\ h.msg.ttl >= 1
             /\ h.msg.originator = guid
             /\ h.msg.id = None /\ h.msg.broadcast_timestamp = None
             /\ Decided(h))
            => /\ Len(forwards') = Len(forwards) + 1
               /\ forwards'[Len(forwards')].originator = guid
               /\ forwards'[Len(forwards')].origin]_vars
    /\ [](\A i \in DOMAIN forwards :
             Forwarded(forwards[i].originator, forwards[i].id) <= 1)


(***************************************************************************)
(* C16.  When peers are unreachable or answer with an error while a node   *)
(* sends a message on, the handler still completes, the other peers still  *)
(* get the message, and the handler returns true.                          *)
(***************************************************************************)
C16_FanOutFailuresTolerated ==
    [][\A g \in At("gather") :
          CopiesIn(g, bcast') < CopiesIn(g, bcast)
          => bcast_reply' = Reply(g.msg, "true", bcast_reply'.failed)]_vars

(***************************************************************************)
(* C17.  The highest GUID a node knows never decreases, under any          *)
(* interleaving of the steps of its own sync job, its join step and the    *)
(* /sync requests its API process handles meanwhile.                       *)
(***************************************************************************)
C17_KnownMaxNeverDecreases ==
    [][(NextTick \/ NextSync)
       => (network_guid # None
           => (network_guid' # None /\ network_guid' >= network_guid))]_vars

C19_ClusterConverges ==
    <>(\A n \in Nodes : knows[n] = Highest)


(***************************************************************************)
(* C20.  Once a node has got its identity (GUID) from a successful join,   *)
(* no later sync job, restart or store operation changes it to another     *)
(* GUID: the job joins only while there is no identity, and setting the    *)
(* identity to a different GUID fails.                                     *)
(***************************************************************************)
C20_IdentityKept ==
    [][CacheGuid # None => CacheGuid' = CacheGuid]_vars

(***************************************************************************)
(* C21.  Whenever a node has a client record, its own store has an entry   *)
(* for the client's GUID: the step of the job in which the boot node's     *)
(* answer to the join request is stored leaves the node with its GUID      *)
(* among the keys of cache.guid_map.                                       *)
(***************************************************************************)
C21_ClientInStore ==
    [][(tick.pc = "join" /\ guid' # None) => Contains(guid_map', guid')]_vars

\* the call that has returned was made on a GUID of the ring 1..guid_max
InRing == 1 <= ring.self /\ ring.self <= ring.guid_max

\* the GUID that follows g on the descending ring 1..guid_max
Below(g, guid_max) == IF g = 1 THEN guid_max ELSE g - 1

(***************************************************************************)
(* C22.  For 1 <= g <= m the network sequence of (g, m) begins with g,     *)
(* goes on by descending GUID with wrap-around and is a permutation of     *)
(* 1..m: its length is m and GUID 0 is not in it.                          *)
(***************************************************************************)
C22_NetworkIsPermutation ==
    (ring.pc = "network" /\ InRing) =>
        /\ Len(ring.out) = ring.guid_max
        /\ Range(ring.out) = 1..ring.guid_max
        /\ 0 \notin Range(ring.out)
        /\ ring.out # <<>> /\ ring.out[1] = ring.self
        /\ \A i \in 1..(Len(ring.out) - 1) :
              ring.out[i + 1] = Below(ring.out[i], ring.guid_max)

RECURSIVE Log2(_)
\* the integer part of the binary logarithm of n >= 1
Log2(n) == IF n < 2 THEN 0 ELSE 1 + Log2(n \div 2)

\* the elements of s are pairwise distinct
Distinct(s) == \A i \in DOMAIN s : \A j \in DOMAIN s : s[i] = s[j] => i = j

RECURSIVE AtPowers(_, _, _)
\* the elements of network at the indices index, 2 * index, 4 * index, ...
\* (counted from 0) that are strictly less than bound
AtPowers(network, index, bound) ==
    IF index < bound /\ index < Len(network)
    THEN <<network[index + 1]>> \o AtPowers(network, 2 * index, bound)
    ELSE <<>>

(***************************************************************************)
(* C24.  The primary peers of (g, m) are the elements of the network       *)
(* sequence of (g, m) at the indices 1, 2, 4, 8, ... that are strictly     *)
(* less than m, in this order; those of (5, 9) are 4, 3, 1, 6 and those    *)
(* of (9, 9) are 8, 7, 5, 1.                                               *)
(***************************************************************************)
C24_PrimaryPeersAtPowersOfTwo ==
    (ring.pc = "primary" /\ InRing) =>
        /\ ring.out = AtPowers(GetNetwork(ring.self, ring.guid_max), 1,
                               ring.guid_max)
        /\ (ring.self = 5 /\ ring.guid_max = 9) => ring.out = <<4, 3, 1, 6>>
        /\ (ring.self = 9 /\ ring.guid_max = 9) => ring.out = <<8, 7, 5, 1>>

\* the call that has returned was get_backup_peers(start_guid, stop_guid,
\* guid_max) on GUID(self)
BackupOf(self, start_guid, stop_guid, guid_max) ==
    /\ ring.pc = "backup"
    /\ ring.self = self /\ ring.guid_max = guid_max
    /\ ring.start_guid = start_guid /\ ring.stop_guid = stop_guid

(***************************************************************************)
(* C25.  The backup peers of (g, start, stop, m) are the elements of the   *)
(* network sequence of (g, m) strictly after start and strictly before     *)
(* stop when stop comes after start, and otherwise every element after     *)
(* start up to the end; those of (6, 2, 8, 9) are 1, 9 and those of        *)
(* (9, 1, 9, 9) are none.                                                  *)
(***************************************************************************)
C25_BackupPeersBetween ==
    /\ (ring.pc = "backup" /\ ring.out.ok) =>
          LET network == GetNetwork(ring.self, ring.guid_max)
              start_idx == Index(network, ring.start_guid)
              stop_idx == Index(network, ring.stop_guid)
              last == IF stop_idx > start_idx THEN stop_idx - 1 ELSE Len(network)
          IN  /\ Len(ring.out.guids) = last - start_idx
              /\ \A k \in 1..(last - start_idx) :
                    ring.out.guids[k] = network[start_idx + k]
    /\ BackupOf(6, 2, 8, 9) => (ring.out.ok /\ ring.out.guids = <<1, 9>>)
    /\ BackupOf(9, 1, 9, 9) => (ring.out.ok /\ ring.out.guids = <<>>)

\* s is a run of consecutive elements of t
IsSliceOf(s, t) ==
    \E i \in 0..Len(t) :
        /\ i + Len(s) <= Len(t)
        /\ \A k \in 1..Len(s) : t[i + k] = s[k]

\* the positions i and j of a ring of n elements are next to each other
Adjacent(i, j, n) == i - j \in {1, -1} \/ (n > 1 /\ {i, j} = {1, n})

(***************************************************************************)
(* C26.  As stated: for a and b in the ring, the backup peers of           *)
(* (g, a, b, m) are a subsequence of the network sequence of (g, m) with   *)
(* neither a nor b in it, empty if and only if the indices of a and b in   *)
(* the sequence are adjacent or equal.                                     *)
(***************************************************************************)
C26_BackupPeersEmptyAsStated ==
    (/\ ring.pc = "backup" /\ InRing
     /\ ring.start_guid \in 1..ring.guid_max
     /\ ring.stop_guid \in 1..ring.guid_max) =>
        LET network == GetNetwork(ring.self, ring.guid_max)
            start_idx == Index(network, ring.start_guid)
            stop_idx == Index(network, ring.stop_guid)
        IN  /\ ring.out.ok
            /\ IsSliceOf(ring.out.guids, network)
            /\ ring.start_guid \notin Range(ring.out.guids)
            /\ ring.stop_guid \notin Range(ring.out.guids)
            /\ ring.out.guids = <<>> <=>
                  (\/ Adjacent(start_idx, stop_idx, Len(network))
                   \/ start_idx = stop_idx)

(***************************************************************************)
(* C26, amended.  For a and b in the ring, the backup peers of             *)
(* (g, a, b, m) are a run of consecutive elements of the network sequence  *)
(* of (g, m) with neither a nor b in it, empty if and only if b comes      *)
(* right after a in the sequence, or b does not come after a and a is the  *)
(* last element of the sequence.                                           *)
(***************************************************************************)
C26_BackupPeersEmpty ==
    LET network == GetNetwork(ring.self, ring.guid_max)
        start_idx == Index(network, ring.start_guid)
        stop_idx == Index(network, ring.stop_guid)
    IN  (/\ ring.pc = "backup" /\ ring.self <= ring.guid_max
         /\ start_idx # 0 /\ stop_idx # 0) =>
            /\ ring.out.ok
            /\ IsSliceOf(ring.out.guids, network)
            /\ ring.start_guid \notin Range(ring.out.guids)
            /\ ring.stop_guid \notin Range(ring.out.guids)
            /\ ring.out.guids = <<>> <=>
                  (\/ stop_idx = start_idx + 1
                   \/ (stop_idx <= start_idx /\ start_idx = Len(network)))

\* start and stop are the same GUID, or stop comes right before start, and
\* there are backup peers
C26_Witness ==
    /\ ring.pc = "backup" /\ InRing
    /\ ring.start_guid = 7 /\ ring.stop_guid \in {7, 8}
    /\ ring.self = 9 /\ ring.guid_max = 9
    /\ ring.out.ok
    /\ ring.out.guids = <<6, 5, 4, 3, 2, 1, 0>>

(***************************************************************************)
(* C27.  get_backup_peers raises GUIDNotInNetwork whenever start or stop   *)
(* is not a member of the ring of (g, m), and returns no GUIDs then.       *)
(***************************************************************************)
C27_NotInNetworkRaises ==
    LET network == GetNetwork(ring.self, ring.guid_max)
    IN  (/\ ring.pc = "backup"
         /\ \/ ring.start_guid \notin Range(network)
            \/ ring.stop_guid \notin Range(network)) =>
            (~ring.out.ok /\ ring.out.guids = <<>>)

\* start is in the ring of (0, 3), stop is not, and the call has raised; and
\* the other way round
C27_Witness ==
    /\ (BackupOf(0, 2, 4, 3) \/ BackupOf(0, 4, 2, 3))
    /\ ~ring.out.ok

(***************************************************************************)
(* C28.  Two join requests without a GUID from one address that overlap,   *)
(* both suspended at the read of their body with their snapshot of the     *)
(* address map taken before either allocates, leave exactly one GUID bound *)
(* to the address, and both answers carry it.  The step is the return of   *)
(* the second: the answer before it allocated a GUID to the same sender,   *)
(* and the snapshot of the returning handler has no entry for the sender.  *)
(***************************************************************************)
C28_OverlappingJoinsOneGuid ==
    [][\A h \in BagToSet(join) :
          (/\ JoinReturns
           /\ CopiesIn(h, join') < CopiesIn(h, join)
           /\ h.known = None
           /\ join_reply'.data = None
           /\ join_reply.sender = h.sender
           /\ join_reply.data = None
           /\ join_reply.was = None
           /\ join_reply.retval.guid # None) =>
              /\ join_reply'.retval.guid = join_reply.retval.guid
              /\ Cardinality(BoundTo(guid_map', h.sender)) = 1]_vars

(***************************************************************************)
(* C29.  When a peer is unreachable during a run of the sync job, only     *)
(* that peer is skipped: the job goes on with the peers that come after    *)
(* it, and what the node has stored is kept.  The step is the one in which *)
(* the request to a peer fails while another peer is still to come.        *)
(***************************************************************************)
C29_UnreachablePeerSkipped ==
    [][(TickFail /\ tick.pc = "wait" /\ Len(tick.todo) >= 2) =>
          /\ network_guid' = network_guid
          /\ guid' = guid
          /\ guid_map' = guid_map
          /\ tick'.pc = "sync"
          /\ tick'.todo = Tail(tick.todo)]_vars

PeersReturned == upsert.op = "get_peers" /\ upsert.outcome = "ok"

\* the peer b could be reached during the call: it answers, and its address is
\* in the store or the boot node resolves it
Responsive(b) ==
    /\ b \in upsert.alive
    /\ (Get(upsert.store, b) # None \/ b \in upsert.known)

\* the backup peers of the i-th primary peer of the node
BackupsOf(i) ==
    LET peer_guids == GetPrimaryPeers(guid, network_guid)
        next_guid == IF i < Len(peer_guids) THEN peer_guids[i + 1] ELSE guid
    IN  GetBackupPeers(guid, peer_guids[i], next_guid, network_guid).guids

(***************************************************************************)
(* C31.  When a primary peer p is unresponsive, the peer list that         *)
(* get_peers returns has the first responsive backup peer of p, in ring    *)
(* order, in its place; it has no backup peer of p when p is responsive;   *)
(* and it never has more entries than there are primary peers.             *)
(***************************************************************************)
C31_BackupReplacesDeadPrimary ==
    PeersReturned =>
        LET peer_guids == GetPrimaryPeers(guid, network_guid)
        IN  /\ Len(upsert.peers) <= Len(peer_guids)
            /\ \A i \in DOMAIN peer_guids :
                  LET backups == BackupsOf(i)
                      found == {j \in DOMAIN backups : Responsive(backups[j])}
                  IN  /\ (peer_guids[i] \notin upsert.alive /\ found # {}) =>
                            backups[CHOOSE j \in found : \A k \in found : j <= k]
                                \in Range(upsert.peers)
                      /\ peer_guids[i] \in upsert.alive =>
                            Range(backups) \cap Range(upsert.peers) = {}


\* C32: updates of a node's GUID-to-address map are never lost: no step of a
\* writer, be it the API process or the sync daemon, removes a GUID that the
\* map holds, so of two writers that add different GUIDs at the same time
\* both entries are in the map afterwards.
C32_NoEntryLost ==
    [][Keys(guid_map) \subseteq Keys(guid_map')]_vars


\* C33: every call of Peer.get_peers terminates, whatever addresses the node
\* and the boot node know and whichever peers answer: no call is left in one
\* of its loops for ever.
C33_GetPeersTerminates ==
    upsert.op = "get_peers" => upsert.outcome # "hang"


\* C34: the ids of the messages a node decides to forward, in the order of
\* its decisions, are strictly increasing; of two distinct messages with the
\* same id it therefore forwards at most one.
C34_ForwardedIdsIncrease ==
    /\ \A i, j \in DOMAIN forwards : i < j => forwards[i].id < forwards[j].id
    /\ \A i, j \in DOMAIN forwards :
          forwards[i].id = forwards[j].id
              => forwards[i].originator = forwards[j].originator

\* the node has turned down a message of another originator that carries the
\* id of a message it has forwarded
C34_Witness ==
    /\ bcast_reply # NoReply
    /\ bcast_reply.retval = "false"
    /\ \E k \in DOMAIN forwards :
          /\ forwards[k].id = bcast_reply.msg.id
          /\ forwards[k].originator # bcast_reply.msg.originator


\* C35: a flood terminates at every node: no /broadcast handler is left in a
\* loop that never ends; a handler that waits for its fan-out has recorded
\* the id of its message before, so that the message, when it loops back, is
\* turned down at once; and a node forwards one message at most once, so no
\* more nodes forward it than there are nodes.
C35_FloodTerminates ==
    /\ ~Hung
    /\ \A h \in At("gather") : h.msg.id <= message_id_count
    /\ \A i, j \in DOMAIN forwards :
          (/\ i # j
           /\ forwards[i].originator = forwards[j].originator)
              => forwards[i].id # forwards[j].id


\* C36: in the GUID-to-address map of the boot node no address is bound to
\* two different GUIDs, whatever joins and rejoins it has served.
C36_OneGuidPerAddress ==
    is_boot_node =>
        \A a \in Addresses : Cardinality(BoundTo(guid_map, a)) <= 1


\* C37: whenever the job of a joined node computes the node's ring, the
\* highest GUID the node knows is at least its own GUID, and the node is a
\* member of that ring.
C37_OwnGuidInRing ==
    [][(tick.pc = "idle" /\ tick'.pc = "sync")
          => /\ network_guid >= guid'
             /\ Index(GetNetwork(guid', network_guid), guid') > 0]_vars

=============================================================================
